---- MODULE Spec2Model ----
(***************************************************************************)
(* A model of app/main.py: the read loop CommandHandler.run, the dispatch  *)
(* of CommandHandler.handle_command and the history operations built on    *)
(* the readline history list.                                              *)
(*                                                                         *)
(* Text is modelled as a sequence of atoms.  An atom is a blank, a quote,  *)
(* a redirection or pipe character, or a word: a run of characters that    *)
(* holds none of those.  A raw line, a history entry, a line of a file, a  *)
(* token of shlex.split and a printed line are all sequences of atoms, so  *)
(* str.strip, shlex.split, "".join, " ".join and the f-strings of the      *)
(* source are computed on them.  File and directory names are words that   *)
(* stand for absolute paths.                                               *)
(***************************************************************************)
EXTENDS Integers, Sequences, FiniteSets, TLC

VARIABLES
    hist,               \* readline's history list: entry i is hist[i] (1-based)
    last_append_index,  \* CommandHandler.last_append_index
    must_exit,          \* CommandHandler.must_exit
    cwd,                \* the process's working directory (os.getcwd())
    files,              \* the regular files of the file system, by path
    pc,                 \* "input": blocked in input(); "done": run() returned;
                        \* "crashed": an exception left run() uncaught
    err,                \* the uncaught exception's class, "none" if there is none
    user_input,         \* run()'s local user_input: the last line read, stripped
    out,                \* the lines the last command printed with print()
    listed,             \* the (index, item) pairs the last command printed from the history
    launched,           \* what the last command handed to subprocess (run or call)
    flushes,            \* flushes[i]: how often append_to_history wrote entry i to a file
    saved,              \* per path: the history write_to_history_file last wrote there
    nread,              \* calls of input() so far, over all sessions
    session,            \* number of the running process (1 = the first)
    PATH,               \* os.environ["PATH"]: the directories, each as os lists it
    options,            \* Autocompleter.options
    matches,            \* Autocompleter.matches
    completion          \* the last call of Autocompleter.complete by readline

vars == <<hist, last_append_index, must_exit, cwd, files, pc, err, user_input,
          out, listed, launched, flushes, saved, nread, session,
          PATH, options, matches, completion>>

---------------------------------------------------------------------------
(* Bounds of the exploration *)

MaxLines == 3       \* calls of input(), over all sessions

MaxSessions == 2    \* processes started one after the other

---------------------------------------------------------------------------
(* Atoms *)

SP == " "

SQ == "'"

DQ == "\""

GT == ">"

BAR == "|"

Quotes == {SQ, DQ}

W(s) == <<s>>

---------------------------------------------------------------------------
(* str.strip(): leading and trailing blanks removed *)

RECURSIVE lstrip(_)
lstrip(s) == IF s # <<>> /\ Head(s) = SP THEN lstrip(Tail(s)) ELSE s

RECURSIVE rstrip(_)
rstrip(s) ==
    IF s # <<>> /\ s[Len(s)] = SP THEN rstrip(SubSeq(s, 1, Len(s) - 1)) ELSE s

strip(s) == rstrip(lstrip(s))

(* "x in s" for a one-character x *)
Contains(s, a) == \E i \in 1..Len(s) : s[i] = a

RECURSIVE Join(_, _)
Join(toks, sep) ==
    IF toks = <<>> THEN <<>>
    ELSE IF Len(toks) = 1 THEN toks[1]
    ELSE toks[1] \o sep \o Join(Tail(toks), sep)

---------------------------------------------------------------------------
(* shlex.split(s): blanks separate tokens outside quotes, a quote opens a  *)
(* quoted run that its own kind closes, and the quotes are dropped.  A     *)
(* quoted run left open raises ValueError("No closing quotation").         *)

RECURSIVE Lex(_, _, _, _, _)
Lex(rest, cur, inTok, quote, acc) ==
    IF rest = <<>> THEN
        IF quote # "" THEN [ok |-> FALSE, toks |-> <<>>]
        ELSE [ok |-> TRUE, toks |-> IF inTok THEN Append(acc, cur) ELSE acc]
    ELSE
        LET c == Head(rest)
            r == Tail(rest)
        IN  IF quote # "" THEN
                IF c = quote THEN Lex(r, cur, TRUE, "", acc)
                ELSE Lex(r, Append(cur, c), TRUE, quote, acc)
            ELSE IF c = SP THEN
                IF inTok THEN Lex(r, <<>>, FALSE, "", Append(acc, cur))
                ELSE Lex(r, <<>>, FALSE, "", acc)
            ELSE IF c \in Quotes THEN Lex(r, cur, TRUE, c, acc)
            ELSE Lex(r, Append(cur, c), TRUE, "", acc)

shlex_split(s) == Lex(s, <<>>, FALSE, "", <<>>)

(* command, *arg = shlex.split(command): ValueError when the split fails   *)
(* and when it yields no token to unpack.                                  *)
split_command(command) ==
    LET r == shlex_split(command)
    IN  IF r.ok /\ r.toks # <<>>
        THEN [ok |-> TRUE, command |-> Head(r.toks), arg |-> Tail(r.toks)]
        ELSE [ok |-> FALSE, command |-> <<>>, arg |-> <<>>]

is_a_redirect(command) == Contains(command, GT)

is_a_pipe(command) == Contains(command, BAR)

---------------------------------------------------------------------------
(* The environment of the process: files, directories, PATH, HISTFILE *)

F == W("F")

G == W("G")

H == W("H")

FilePaths == {F, G, H}          \* paths that are, or may become, regular files

TmpDir == W("/tmp")

HomeDir == W("/home")

Dirs == {TmpDir, HomeDir}       \* the directories that exist

Tilde == W("~")

(* paths that name something below a regular file *)
BelowFile == (W("H/x") :> H)

Executables == {W("ls"), W("bad")}  \* names shutil.which resolves on PATH

Unstartable == {W("bad")}       \* resolved, but exec fails (not a valid program image)

NoFile == [exists |-> FALSE, lines |-> <<>>]

FileOf(ls) == [exists |-> TRUE, lines |-> ls]

(* The file system a first session may find: F is absent, G is empty, H is *)
(* a history file left by another shell, one of its lines indented.        *)
InitialFiles ==
    (F :> NoFile) @@ (G :> FileOf(<<>>)) @@
    (H :> FileOf(<< <<SP, "ls">>, <<"echo", SP, "a">> >>))

HistFileChoices == {<<>>, F, H}     \* os.getenv("HISTFILE"): unset/empty, or a path

(* Path(p).open(mode): "ok", or the class of the OSError it raises *)
Open(fs, p, mode) ==
    IF p \in Dirs THEN "IsADirectoryError"
    ELSE IF p \in FilePaths THEN
        IF mode = "r" /\ ~fs[p].exists THEN "FileNotFoundError" ELSE "ok"
    ELSE "FileNotFoundError"

find_executable(command) == command \in Executables

---------------------------------------------------------------------------
(* readline's history list *)

add_history(h, line) == Append(h, line)

clear_history_kept(h) == h

clear_history(h) == <<>>

get_current_history_length(h) == Len(h)

(* readline.get_history_item(i): None outside 1..length, printed "None" *)
get_history_item(h, i) == IF i \in 1..Len(h) THEN h[i] ELSE W("None")

(* readline.read_history_file: every non-empty line of the file is added *)
(* as it stands.                                                         *)
read_history_file(h, ls) == h \o SelectSeq(ls, LAMBDA l : l # <<>>)

(* load_history_file, lines 66-72, on the history of a new process *)
load_history_file(fs, hf) ==
    IF hf # <<>> /\ hf \in FilePaths /\ fs[hf].exists
    THEN read_history_file(<<>>, fs[hf].lines)
    ELSE <<>>

Zeros(n) == [i \in 1..n |-> 0]

---------------------------------------------------------------------------
(* The builtins' computations *)

TYPES_BUILTIN == {W("echo"), W("type"), W("exit"), W("pwd"), W("history")}

Concat(toks) == Join(toks, <<>>)

handle_echo(arg) == << Join(arg, <<SP>>) >>

handle_type(arg) ==
    LET a == Concat(arg)
    IN  IF a \in TYPES_BUILTIN THEN << a \o W(" is a shell builtin") >>
        ELSE IF find_executable(a) THEN << W("/bin/") \o a >>
        ELSE << a \o W(": not found") >>

handle_pwd(dir) == << dir >>

handle_default_short(command) == << command \o W(": not found") >>

handle_default(command) == << command \o W(": command not found") >>

handle_cd_unchecked(dir, fs, arg) == [cwd |-> Concat(arg), out |-> <<>>, err |-> "none"]

(* handle_cd, lines 114-119: Path("".join(arg)).expanduser() and os.chdir. *)
(* An empty path is ".", "~" is the home directory.  Only                  *)
(* FileNotFoundError is caught: a path that is, or runs through, a regular *)
(* file raises NotADirectoryError.                                         *)
handle_cd(dir, fs, arg) ==
    LET a == Concat(arg)
        target == IF a # <<>> /\ Head(a) = "~" THEN HomeDir \o Tail(a) ELSE a
    IN  IF target = <<>> THEN [cwd |-> dir, out |-> <<>>, err |-> "none"]
        ELSE IF target \in Dirs THEN [cwd |-> target, out |-> <<>>, err |-> "none"]
        ELSE IF target \in FilePaths /\ fs[target].exists
            THEN [cwd |-> dir, out |-> <<>>, err |-> "NotADirectoryError"]
        ELSE IF target \in DOMAIN BelowFile /\ fs[BelowFile[target]].exists
            THEN [cwd |-> dir, out |-> <<>>, err |-> "NotADirectoryError"]
        ELSE [cwd |-> dir,
              out |-> << W("cd: ") \o a \o W(": No such file or directory") >>,
              err |-> "none"]

(* int(n): the words that are decimal numerals *)
Numerals == ("0" :> 0) @@ ("1" :> 1) @@ ("2" :> 2) @@ ("5" :> 5)

IsInt(tok) == Len(tok) = 1 /\ tok[1] \in DOMAIN Numerals

IntOf(tok) == Numerals[tok[1]]

(* range(a, b) as a sequence *)
Range(a, b) == [k \in 1..(IF b > a THEN b - a ELSE 0) |-> a + k - 1]

HistLine(h, i) == [idx |-> i, text |-> get_history_item(h, i)]

(* handle_indexed_history, lines 130-134 *)
handle_indexed_history(h, n) ==
    LET len == get_current_history_length(h)
        r == Range(len + 1 - n, len + 1)
    IN  [k \in 1..Len(r) |-> HistLine(h, r[k])]

(* handle_history, lines 137-140 *)
handle_history(h) ==
    LET r == Range(1, get_current_history_length(h) + 1)
    IN  [k \in 1..Len(r) |-> HistLine(h, r[k])]

(* f"history -r {filename}" *)
ReloadRecord(filename) == <<"history", SP, "-r", SP>> \o filename

(* handle_history_from_filename, lines 144-145: what is done before the *)
(* file is opened                                                       *)
ReloadStart(h, filename) == add_history(clear_history(h), ReloadRecord(filename))

RECURSIVE AddUnstripped(_, _)
AddUnstripped(h, ls) ==
    IF ls = <<>> THEN h
    ELSE AddUnstripped(add_history(h, Head(ls)), Tail(ls))

(* lines 147-148: every line of the file, stripped, is added *)
RECURSIVE AddStripped(_, _)
AddStripped(h, ls) ==
    IF ls = <<>> THEN h
    ELSE AddStripped(add_history(h, strip(Head(ls))), Tail(ls))

handle_history_from_filename(h, filename, ls) ==
    AddStripped(ReloadStart(h, filename), ls)

(* write_to_history_file, lines 151-154: the lines written to the file, *)
(* each f"{item}\n"                                                      *)
write_to_history_file(h) ==
    LET r == Range(1, get_current_history_length(h) + 1)
    IN  [k \in 1..Len(r) |-> get_history_item(h, r[k])]

AppendRangeAll(h, from) == Range(1, get_current_history_length(h) + 1)

(* append_to_history, line 158: the indices the loop visits *)
AppendRange(h, from) == Range(from, get_current_history_length(h) + 1)

(* append_to_history, lines 158-159: the lines written *)
AppendedLines(h, from) ==
    LET r == AppendRange(h, from)
    IN  [k \in 1..Len(r) |-> get_history_item(h, r[k])]

(* append_to_history, line 160 *)
NextAppendIndex(h) == get_current_history_length(h) + 1

(* the entries the loop of lines 158-159 visits, counted once more each *)
CountFlush(fl, h, from) ==
    LET r == AppendRange(h, from)
    IN  [i \in 1..Len(fl) |->
            IF \E k \in 1..Len(r) : r[k] = i THEN fl[i] + 1 ELSE fl[i]]

---------------------------------------------------------------------------
(* Autocompleter, lines 9-42.  A name is the sequence of its characters, *)
(* so that str.startswith is computed.                                   *)

n_echo == <<"e", "c", "h", "o">>

n_type == <<"t", "y", "p", "e">>

n_exit == <<"e", "x", "i", "t">>

n_pwd == <<"p", "w", "d">>

n_cd == <<"c", "d">>

n_history == <<"h", "i", "s", "t", "o", "r", "y">>

n_ls == <<"l", "s">>

n_bad == <<"b", "a", "d">>

n_notes == <<"n", "o", "t", "e", "s">>

n_lib == <<"l", "i", "b">>

available_commands == <<n_echo, n_type, n_exit, n_pwd, n_cd>>

(* a directory entry: a regular file or not, executable or not *)
Entry(name, file, exec) == [name |-> name, file |-> file, exec |-> exec]

Dir(entries) == [exists |-> TRUE, entries |-> entries]

NoDir == [exists |-> FALSE, entries |-> <<>>]

MainBin == Dir(<<Entry(n_ls, TRUE, TRUE), Entry(n_bad, TRUE, TRUE)>>)

Bin == Dir(<<Entry(n_ls, TRUE, TRUE), Entry(n_echo, TRUE, TRUE)>>)

UsrBin == Dir(<<Entry(n_lib, FALSE, TRUE), Entry(n_ls, TRUE, TRUE),
                Entry(n_notes, TRUE, FALSE)>>)

MainPATH == <<MainBin>>         \* the search path on which Executables are found

PathChoices == {<<>>, <<MainBin>>, <<Bin>>, <<UsrBin>>, <<Bin, UsrBin>>, <<NoDir, Bin>>}

(* shutil.which(name): an executable regular file of that name in some *)
(* directory of the search path                                        *)
which(path, name) ==
    \E d \in 1..Len(path) :
        /\ path[d].exists
        /\ \E i \in 1..Len(path[d].entries) :
              LET e == path[d].entries[i]
              IN  e.name = name /\ e.file /\ e.exec

RECURSIVE NamesOf(_)
NamesOf(entries) ==
    IF entries = <<>> THEN <<>> ELSE <<Head(entries).name>> \o NamesOf(Tail(entries))

(* _get_path_executable, lines 22-28, over the directories from dirs on *)
RECURSIVE PathExecutables(_, _)
PathExecutables(path, dirs) ==
    IF dirs = <<>> THEN <<>>
    ELSE (IF Head(dirs).exists
          THEN NamesOf(SelectSeq(Head(dirs).entries,
                                 LAMBDA e : e.file /\ which(path, e.name)))
          ELSE <<>>)
         \o PathExecutables(path, Tail(dirs))

get_path_executable(path) == PathExecutables(path, path)

(* get_options, lines 16-19 *)
get_options(path) == available_commands \o get_path_executable(path)

startswith(option, text) ==
    Len(text) <= Len(option) /\ SubSeq(option, 1, Len(text)) = text

(* complete, lines 31-36: the matches a call with state 0 computes *)
MatchesFor(opts, text) ==
    IF text # <<>> THEN SelectSeq(opts, LAMBDA o : startswith(o, text)) ELSE opts

(* complete, lines 39-42: f"{self.matches[state]} ", or None *)
Returned(ms, state) ==
    IF state < Len(ms) THEN [none |-> FALSE, value |-> Append(ms[state + 1], SP)]
    ELSE [none |-> TRUE, value |-> <<>>]

NoCall == [called |-> FALSE, text |-> <<>>, state |-> 0,
           ret |-> [none |-> TRUE, value |-> <<>>]]

(* the words a user completes *)
Prefixes ==
    {<<>>, <<"e">>, <<"e", "c">>, <<"h">>, <<"c">>, <<"l">>, <<"l", "s">>, <<"t">>, <<"x">>}

---------------------------------------------------------------------------
(* handle_command, lines 163-194: the branch a stripped line takes *)

IsExitZero(c) == c.command = W("exit") /\ c.arg = <<W("0")>>

(* line 168: case ("exit", _) *)
IsExit(c) == c.command = W("exit")

(* lines 167-194: the case that matches split_command's result *)
Match(command) ==
    LET c == split_command(command)
    IN  IF ~c.ok THEN "ValueError"
        ELSE IF IsExit(c) THEN "exit"
        ELSE IF c.command = W("echo") THEN "echo"
        ELSE IF c.command = W("type") THEN "type"
        ELSE IF c.command = W("pwd") THEN "pwd"
        ELSE IF c.command = W("cd") THEN "cd"
        ELSE IF c.command = W("history") THEN
            IF Len(c.arg) = 2 /\ c.arg[1] = W("-a") THEN "history_a"
            ELSE IF Len(c.arg) = 2 /\ c.arg[1] = W("-w") THEN "history_w"
            ELSE IF Len(c.arg) = 2 /\ c.arg[1] = W("-r") THEN "history_r"
            ELSE IF Len(c.arg) = 1 THEN "history_n"
            ELSE "history"
        ELSE IF find_executable(c.command) THEN "exec"
        ELSE "default"

BranchMatchFirst(command) ==
    IF Match(command) = "exit" THEN "exit"
    ELSE IF is_a_redirect(command) \/ is_a_pipe(command) THEN "passthrough"
    ELSE Match(command)

Branch(command) ==
    IF is_a_redirect(command) \/ is_a_pipe(command) THEN "passthrough"
    ELSE Match(command)

---------------------------------------------------------------------------
(* The lines a user types *)

InputLines ==
    { <<>>,
      <<SP, SP>>,
      <<"echo", SP, SQ, "a">>,
      <<SP, "echo", SP, SQ, "a", SP, "b", SQ, SP>>,
      <<"type", SP, "cd">>,
      <<"pwd">>,
      <<"cd", SP, "/tmp">>,
      <<"cd", SP, "nodir">>,
      <<"cd", SP, "H">>,
      <<"cd", SP, "H/x">>,
      <<"exit">>,
      <<"exit", SP, "0">>,
      <<"exit", SP, "1">>,
      <<"exit", SP, "x">>,
      <<"exit", SP, GT, SP, "/dev/null">>,
      <<"ls", SP, "-l">>,
      <<"bad">>,
      <<"nope", SP, "-x">>,
      <<"ls", SP, BAR, SP, "wc">>,
      <<"history">>,
      <<"history", SP, "2">>,
      <<"history", SP, "x">>,
      <<"history", SP, "-a", SP, "F">>,
      <<"history", SP, "-a", SP, "/tmp">>,
      <<"history", SP, "-w", SP, "F">>,
      <<"history", SP, "-w", SP, "/tmp">>,
      <<"history", SP, "-r", SP, "F">>,
      <<"history", SP, "-r", SP, "G">>,
      <<"history", SP, "-r", SP, "H">> }

(* Every line of InputLines as run and handle_command see it: stripped   *)
(* (line 198), its branch, and the command and arg of split_command.     *)
Seen ==
    [raw \in InputLines |->
        [line |-> strip(raw),
         branch |-> Branch(strip(raw)),
         command |-> split_command(strip(raw)).command,
         arg |-> split_command(strip(raw)).arg]]

NoLaunch == [how |-> "none", args |-> <<>>]

NotSaved == [valid |-> FALSE, entries |-> <<>>, session |-> 0]

---------------------------------------------------------------------------
(* Start of a process: module level and CommandHandler.__init__ *)

(* lines 50-54: completer = Autocompleter() under the search path *)
NewCompleter(path) ==
    /\ PATH = path
    /\ options = get_options(path)
    /\ matches = <<>>
    /\ completion = NoCall

NewShell ==
    /\ files = InitialFiles
    /\ \E hf \in HistFileChoices : hist = load_history_file(files, hf)
    /\ flushes = Zeros(Len(hist))
    /\ last_append_index = 1
    /\ must_exit = FALSE
    /\ cwd = HomeDir
    /\ pc = "input"
    /\ err = "none"
    /\ user_input = <<>>
    /\ out = <<>>
    /\ listed = <<>>
    /\ launched = NoLaunch
    /\ saved = [p \in FilePaths |-> NotSaved]
    /\ nread = 0
    /\ session = 1

Init == NewShell /\ NewCompleter(MainPATH)

(* the same start under any search path *)
InitComplete == NewShell /\ \E path \in PathChoices : NewCompleter(path)

(* A new process is started after the last one ended; the files stay. *)
Restart ==
    /\ pc \in {"done", "crashed"}
    /\ session < MaxSessions
    /\ \E hf \in HistFileChoices : hist' = load_history_file(files, hf)
    /\ flushes' = Zeros(Len(hist'))
    /\ last_append_index' = 1
    /\ must_exit' = FALSE
    /\ cwd' = HomeDir
    /\ pc' = "input"
    /\ err' = "none"
    /\ user_input' = <<>>
    /\ out' = <<>>
    /\ listed' = <<>>
    /\ launched' = NoLaunch
    /\ session' = session + 1
    /\ options' = get_options(PATH)
    /\ matches' = <<>>
    /\ completion' = NoCall
    /\ UNCHANGED <<files, saved, nread, PATH>>

---------------------------------------------------------------------------
(* run, lines 196-200: one turn of the loop per action, by branch *)

(* line 198: input() returns raw, and strip() *)
Reads(raw, branch) ==
    /\ pc = "input"
    /\ ~must_exit
    /\ nread < MaxLines
    /\ raw \in InputLines
    /\ Seen[raw].branch = branch

NotRecorded(raw) == hist

(* line 199: readline.add_history(user_input) *)
Recorded(raw) == add_history(hist, Seen[raw].line)

(* the turn's end: back to the loop test, or out with an exception *)
Turn(raw, e, exiting) ==
    /\ user_input' = Seen[raw].line
    /\ nread' = nread + 1
    /\ err' = e
    /\ pc' = IF e # "none" THEN "crashed" ELSE IF exiting THEN "done" ELSE "input"
    /\ UNCHANGED <<session, PATH, options, matches, completion>>

(* line 198: input() at the end of the input stream raises EOFError *)
EndOfInput ==
    /\ pc = "input"
    /\ ~must_exit
    /\ nread < MaxLines
    /\ nread' = nread + 1
    /\ pc' = "crashed"
    /\ err' = "EOFError"
    /\ UNCHANGED <<hist, last_append_index, must_exit, cwd, files, user_input, out,
                   listed, launched, flushes, saved, session,
                   PATH, options, matches, completion>>

(* A turn that only records the line and prints *)
Plain(raw, o, ls, la, e) ==
    /\ hist' = Recorded(raw)
    /\ flushes' = Append(flushes, 0)
    /\ out' = o
    /\ listed' = ls
    /\ launched' = la
    /\ Turn(raw, e, must_exit)
    /\ UNCHANGED <<last_append_index, must_exit, cwd, files, saved>>

Passthrough ==
    \E raw \in InputLines :
        /\ Reads(raw, "passthrough")
        /\ Plain(raw, <<>>, <<>>, [how |-> "call", args |-> <<Seen[raw].line>>], "none")

ParseFail ==
    \E raw \in InputLines :
        /\ Reads(raw, "ValueError")
        /\ Plain(raw, <<>>, <<>>, NoLaunch, "ValueError")

Exit ==
    \E raw \in InputLines :
        /\ Reads(raw, "exit")
        /\ hist' = Recorded(raw)
        /\ flushes' = Append(flushes, 0)
        /\ must_exit' = TRUE
        /\ out' = <<>>
        /\ listed' = <<>>
        /\ launched' = NoLaunch
        /\ Turn(raw, "none", TRUE)
        /\ UNCHANGED <<last_append_index, cwd, files, saved>>

Echo ==
    \E raw \in InputLines :
        /\ Reads(raw, "echo")
        /\ Plain(raw, handle_echo(Seen[raw].arg), <<>>, NoLaunch, "none")

Type ==
    \E raw \in InputLines :
        /\ Reads(raw, "type")
        /\ Plain(raw, handle_type(Seen[raw].arg), <<>>, NoLaunch, "none")

Pwd ==
    \E raw \in InputLines :
        /\ Reads(raw, "pwd")
        /\ Plain(raw, handle_pwd(cwd), <<>>, NoLaunch, "none")

Cd ==
    \E raw \in InputLines :
        /\ Reads(raw, "cd")
        /\ LET r == handle_cd(cwd, files, Seen[raw].arg)
           IN  /\ cwd' = r.cwd
               /\ out' = r.out
               /\ Turn(raw, r.err, must_exit)
        /\ hist' = Recorded(raw)
        /\ flushes' = Append(flushes, 0)
        /\ listed' = <<>>
        /\ launched' = NoLaunch
        /\ UNCHANGED <<last_append_index, must_exit, files, saved>>

(* handle_exec: subprocess.run([command, *arg]); a program that cannot be *)
(* started raises OSError                                                  *)
Exec ==
    \E raw \in InputLines :
        /\ Reads(raw, "exec")
        /\ LET c == Seen[raw]
           IN  Plain(raw, <<>>, <<>>,
                     IF c.command \in Unstartable THEN NoLaunch
                     ELSE [how |-> "run", args |-> <<c.command>> \o c.arg],
                     IF c.command \in Unstartable THEN "OSError" ELSE "none")

NotFound ==
    \E raw \in InputLines :
        /\ Reads(raw, "default")
        /\ Plain(raw, handle_default(Seen[raw].command), <<>>,
                 NoLaunch, "none")

HistoryList ==
    \E raw \in InputLines :
        /\ Reads(raw, "history")
        /\ Plain(raw, <<>>, handle_history(Recorded(raw)), NoLaunch, "none")

HistoryIndexed ==
    \E raw \in InputLines :
        /\ Reads(raw, "history_n")
        /\ LET n == Seen[raw].arg[1]
           IN  IF IsInt(n)
               THEN Plain(raw, <<>>, handle_indexed_history(Recorded(raw), IntOf(n)),
                          NoLaunch, "none")
               ELSE Plain(raw, <<>>, <<>>, NoLaunch, "ValueError")

(* append_to_history, lines 156-160 *)
HistoryAppend ==
    \E raw \in InputLines :
        /\ Reads(raw, "history_a")
        /\ LET filename == Seen[raw].arg[2]
               h == Recorded(raw)
               fl == Append(flushes, 0)
               o == Open(files, filename, "a")
           IN  /\ hist' = h
               /\ Turn(raw, IF o = "ok" THEN "none" ELSE o, must_exit)
               /\ IF o = "ok"
                  THEN /\ files' = [files EXCEPT ![filename] =
                               FileOf(@.lines \o AppendedLines(h, last_append_index))]
                       /\ last_append_index' = NextAppendIndex(h)
                       /\ flushes' = CountFlush(fl, h, last_append_index)
                       /\ saved' = [saved EXCEPT ![filename] = NotSaved]
                  ELSE /\ flushes' = fl
                       /\ UNCHANGED <<files, last_append_index, saved>>
        /\ out' = <<>>
        /\ listed' = <<>>
        /\ launched' = NoLaunch
        /\ UNCHANGED <<must_exit, cwd>>

(* write_to_history_file, lines 150-154 *)
HistoryWrite ==
    \E raw \in InputLines :
        /\ Reads(raw, "history_w")
        /\ LET filename == Seen[raw].arg[2]
               h == Recorded(raw)
               o == Open(files, filename, "w")
           IN  /\ hist' = h
               /\ Turn(raw, IF o = "ok" THEN "none" ELSE o, must_exit)
               /\ IF o = "ok"
                  THEN /\ files' = [files EXCEPT ![filename] =
                               FileOf(write_to_history_file(h))]
                       /\ saved' = [saved EXCEPT ![filename] =
                               [valid |-> TRUE, entries |-> h, session |-> session]]
                  ELSE UNCHANGED <<files, saved>>
        /\ flushes' = Append(flushes, 0)
        /\ out' = <<>>
        /\ listed' = <<>>
        /\ launched' = NoLaunch
        /\ UNCHANGED <<last_append_index, must_exit, cwd>>

(* handle_history_from_filename, lines 142-148 *)
HistoryRead ==
    \E raw \in InputLines :
        /\ Reads(raw, "history_r")
        /\ LET filename == Seen[raw].arg[2]
               h == Recorded(raw)
               o == Open(files, filename, "r")
           IN  /\ hist' = IF o = "ok"
                          THEN handle_history_from_filename(h, filename,
                                                            files[filename].lines)
                          ELSE ReloadStart(h, filename)
               /\ Turn(raw, IF o = "ok" THEN "none" ELSE o, must_exit)
        /\ flushes' = Zeros(Len(hist'))
        /\ out' = <<>>
        /\ listed' = <<>>
        /\ launched' = NoLaunch
        /\ UNCHANGED <<last_append_index, must_exit, cwd, files, saved>>

Next ==
    \/ Passthrough
    \/ ParseFail
    \/ Exit
    \/ Echo
    \/ Type
    \/ Pwd
    \/ Cd
    \/ Exec
    \/ NotFound
    \/ HistoryList
    \/ HistoryIndexed
    \/ HistoryAppend
    \/ HistoryWrite
    \/ HistoryRead
    \/ EndOfInput
    \/ Restart

Spec == Init /\ [][Next]_vars

---------------------------------------------------------------------------
(* Completion: while input() waits, readline calls complete(text, 0) and *)
(* then complete(text, 1), complete(text, 2), ... until it returns None. *)

Complete ==
    \E text \in Prefixes, state \in 0..Len(options) :
        /\ pc = "input"
        /\ \/ state = 0
           \/ /\ completion.called
              /\ ~completion.ret.none
              /\ text = completion.text
              /\ state = completion.state + 1
        /\ matches' = IF state = 0 THEN MatchesFor(options, text) ELSE matches
        /\ completion' = [called |-> TRUE, text |-> text, state |-> state,
                          ret |-> Returned(matches', state)]
        /\ UNCHANGED <<hist, last_append_index, must_exit, cwd, files, pc, err,
                       user_input, out, listed, launched, flushes, saved, nread,
                       session, PATH, options>>

NextComplete == Complete

SpecComplete == InitComplete /\ [][NextComplete]_vars

---------------------------------------------------------------------------
(* Properties *)

(* a turn of the loop that read a line (user_input' is that line, stripped) *)
LineTurn == nread' = nread + 1 /\ err' # "EOFError"

(* the file name of a "history -x FILE" line *)
FileArg(command) == split_command(command).arg[2]

(* the last turn ran this branch to its end *)
Ran(branch) == pc = "input" /\ nread > 0 /\ user_input # <<>> /\ Branch(user_input) = branch

C2_NoFatalError == pc = "crashed" => err = "EOFError"

(* C3: an empty or whitespace-only line is a no-op: nothing is recorded, *)
(* nothing fails and no other state changes.                              *)
C3_EmptyLineNoOp ==
    [][ (LineTurn /\ user_input' = <<>>) =>
            /\ pc' = "input"
            /\ err' = "none"
            /\ UNCHANGED <<hist, cwd, last_append_index, files>> ]_vars

(* C4: a line with an unterminated quote is not executed and not recorded, *)
(* and the session continues with all state unchanged.                     *)
C4_OpenQuoteNotRecorded ==
    [][ (LineTurn /\ ~is_a_redirect(user_input') /\ ~is_a_pipe(user_input')
                  /\ ~shlex_split(user_input').ok) =>
            /\ pc' = "input"
            /\ launched' = NoLaunch
            /\ UNCHANGED <<hist, cwd, last_append_index, files>> ]_vars

(* C5: the flush cursor never exceeds the number of history entries: *)
(* last_append_index <= history length + 1.                          *)
C5_CursorWithinHistory == last_append_index <= Len(hist) + 1

(* C6: within a session the flush cursor stays, increases, or is reset to *)
(* its initial value by a "history -r"; it never decreases otherwise.     *)
C6_CursorMonotonic ==
    [][ session' = session =>
            \/ last_append_index' >= last_append_index
            \/ /\ last_append_index' = 1
               /\ LineTurn
               /\ Branch(user_input') = "history_r" ]_vars

(* C7: "history -a F" appends to F exactly the entries from the cursor on, *)
(* keeps what F held, and moves the cursor past the last entry; no entry   *)
(* is ever written twice by "history -a", and a second "history -a F"      *)
(* right after the first appends only the record of the second command.    *)
C7_AppendExactlyOnce ==
    [][ /\ \A i \in 1..Len(flushes') : flushes'[i] <= 1
        /\ (LineTurn /\ Branch(user_input') = "history_a" /\ err' = "none") =>
              LET p == FileArg(user_input')
              IN  /\ files'[p].exists
                  /\ files'[p].lines =
                        files[p].lines \o SubSeq(hist', last_append_index, Len(hist'))
                  /\ last_append_index' = Len(hist') + 1
                  /\ (Ran("history_a") /\ user_input = user_input') =>
                        files'[p].lines = Append(files[p].lines, user_input') ]_vars

C7_Witness ==
    /\ Ran("history_a")
    /\ Len(hist) >= 2
    /\ hist[Len(hist)] = user_input
    /\ hist[Len(hist) - 1] = user_input
    /\ Len(files[FileArg(user_input)].lines) >= 3

(* C8: "history -w F" writes exactly the entries to F, one per line in *)
(* order, and a later session's "history -r F" then holds the same     *)
(* entries in the same order after the synthetic record.               *)
C8_RoundTrip ==
    /\ Ran("history_w") => files[FileArg(user_input)].lines = hist
    /\ Ran("history_r") =>
          LET s == saved[FileArg(user_input)]
          IN  (s.valid /\ s.session # session) => Tail(hist) = s.entries

(* C9: "history -r FILE" on a file that cannot be opened fails silently: *)
(* the session continues and the entries are what they were, plus the    *)
(* record of the command.                                                *)
C9_UnreadableFileSilent ==
    [][ (LineTurn /\ Branch(user_input') = "history_r"
                  /\ Open(files, FileArg(user_input'), "r") # "ok") =>
            /\ pc' = "input"
            /\ err' = "none"
            /\ hist' = Append(hist, user_input') ]_vars

C11_PassthroughFirst ==
    [][ (LineTurn /\ (Contains(user_input', GT) \/ Contains(user_input', BAR))) =>
            /\ launched' = [how |-> "call", args |-> <<user_input'>>]
            /\ out' = <<>>
            /\ listed' = <<>>
            /\ must_exit' = FALSE
            /\ pc' = "input"
            /\ err' = "none"
            /\ UNCHANGED <<cwd, last_append_index, files>> ]_vars

C11_Witness ==
    /\ pc = "input"
    /\ launched.how = "call"
    /\ user_input # <<>>
    /\ Head(user_input) = "exit"
    /\ ~must_exit

(* C12: a line whose command name is exit ends the loop whatever its    *)
(* arguments are, and once must_exit is set the process reads, records  *)
(* and dispatches no further line: all that can follow is a new process. *)
C12_ExitUnconditional ==
    [][ /\ (LineTurn /\ ~Contains(user_input', GT) /\ ~Contains(user_input', BAR)
                     /\ split_command(user_input').ok
                     /\ split_command(user_input').command = W("exit")) =>
              /\ must_exit'
              /\ pc' = "done"
              /\ err' = "none"
        /\ must_exit => (session' = session + 1 /\ nread' = nread) ]_vars

C12_Witness ==
    /\ pc = "done"
    /\ must_exit
    /\ user_input = <<"exit", SP, "x">>
    /\ hist[Len(hist)] = user_input

(* the command names handle_command handles itself, lines 168-188 *)
Builtins == {W("echo"), W("type"), W("pwd"), W("cd"), W("exit"), W("history")}

(* C13: for every builtin name B, "type B" prints "B is a shell builtin". *)
C13_TypeOfBuiltin ==
    (Ran("type") /\ Concat(split_command(user_input).arg) \in Builtins) =>
        out = << Concat(split_command(user_input).arg) \o W(" is a shell builtin") >>

(* C14: a line that is tokenized (it holds no ">" or "|") and whose        *)
(* command C is neither a builtin nor found on the search path prints     *)
(* exactly "C: command not found", whatever its arguments; no process is  *)
(* launched and the loop goes on.                                         *)
C14_CommandNotFound ==
    [][ (LineTurn /\ ~Contains(user_input', GT) /\ ~Contains(user_input', BAR)
                  /\ split_command(user_input').ok
                  /\ split_command(user_input').command \notin Builtins
                  /\ split_command(user_input').command \notin Executables) =>
            /\ out' = << split_command(user_input').command \o W(": command not found") >>
            /\ listed' = <<>>
            /\ launched' = NoLaunch
            /\ pc' = "input"
            /\ err' = "none" ]_vars

C14_Witness ==
    /\ Ran("default")
    /\ split_command(user_input).arg # <<>>
    /\ out = << <<"nope", ": command not found">> >>
    /\ launched = NoLaunch

(* the path "".join(arg) of a cd line names nothing that exists *)
NoSuchPath(fs, path) ==
    /\ path # <<>>
    /\ Head(path) # "~"
    /\ path \notin Dirs
    /\ ~(path \in FilePaths /\ fs[path].exists)

(* C15: cd to a path that does not exist leaves the working directory   *)
(* unchanged, prints "cd: <path>: No such file or directory" and the    *)
(* loop goes on.                                                        *)
C15_CdMissingPath ==
    [][ (LineTurn /\ Branch(user_input') = "cd"
                  /\ NoSuchPath(files, Concat(split_command(user_input').arg))) =>
            /\ cwd' = cwd
            /\ out' = << W("cd: ") \o Concat(split_command(user_input').arg)
                             \o W(": No such file or directory") >>
            /\ pc' = "input"
            /\ err' = "none" ]_vars

(* C16: "history n" prints the last min(n, L) of the L entries, each with *)
(* its own index in 1..L, in increasing order, and nothing else.          *)
C16_LastEntries ==
    (Ran("history_n") /\ IsInt(split_command(user_input).arg[1])
                      /\ IntOf(split_command(user_input).arg[1]) >= 0) =>
        LET n == IntOf(split_command(user_input).arg[1])
            L == Len(hist)
            m == IF n < L THEN n ELSE L
        IN  listed = [k \in 1..m |-> [idx |-> L - m + k, text |-> hist[L - m + k]]]

(* the names of the canonical builtins, as the completer spells them *)
BuiltinNames == {n_echo, n_type, n_pwd, n_cd, n_exit, n_history}

(* the executable regular files of the search path *)
PathNames(path) ==
    {e.name : e \in {en \in UNION {{path[d].entries[i] : i \in 1..Len(path[d].entries)} :
                                    d \in {x \in 1..Len(path) : path[x].exists}} :
                        en.file /\ en.exec}}

(* C17: complete(prefix) yields exactly the names of the universe that   *)
(* start with the prefix, the universe being every builtin name and      *)
(* every executable of the search path, and yields each name once.       *)
C17_CompleteUniverse ==
    completion.called =>
        /\ {matches[i] : i \in 1..Len(matches)} =
              {n \in BuiltinNames \cup PathNames(PATH) : startswith(n, completion.text)}
        /\ \A i, j \in 1..Len(matches) : matches[i] = matches[j] => i = j

(* a turn of one of the history branches that ran to its end *)
HistoryTurn(branch) == LineTurn /\ Branch(user_input') = branch /\ err' = "none"

C19_NoEntrySkipped ==
    (Ran("history_a") /\ err = "none") =>
        \A i \in 1..Len(flushes) : flushes[i] >= 1

(* the branches that only print *)
PrintOnly == {"echo", "type", "pwd", "history", "history_n", "default"}

(* C20: within one run of the shell the working directory changes only by *)
(* a "cd" that succeeded, to the directory named, and stays through every *)
(* other line; "pwd" prints it; last_append_index changes only by         *)
(* "history -a"; and echo, type, pwd, history, history n and a command    *)
(* that is not found leave everything as it was but for the one record of *)
(* their own line.                                                        *)
C20_Frame ==
    [][ session' = session =>
        /\ cwd' # cwd =>
              /\ LineTurn
              /\ Branch(user_input') = "cd"
              /\ err' = "none"
              /\ out' = <<>>
              /\ cwd' \in Dirs
        /\ (LineTurn /\ Branch(user_input') = "pwd") => out' = <<cwd>>
        /\ last_append_index' # last_append_index =>
              /\ LineTurn
              /\ Branch(user_input') = "history_a"
        /\ (LineTurn /\ Branch(user_input') \in PrintOnly /\ err' = "none") =>
              /\ hist' = Append(hist, user_input')
              /\ pc' = "input"
              /\ UNCHANGED <<cwd, last_append_index, must_exit, files, saved>> ]_vars

C20_Witness ==
    /\ Ran("pwd")
    /\ nread = 3
    /\ cwd = TmpDir
    /\ out = <<TmpDir>>
    /\ Len(hist) >= 3
    /\ hist[Len(hist) - 1] = <<"cd", SP, "/tmp">>
    /\ hist[Len(hist) - 2] = <<"pwd">>

====
